---------------------------- MODULE Spec2Model ----------------------------
(***************************************************************************)
(* Model of the CM360 MCP server: the paginated request helper             *)
(* (paginatedRequest, in its aggregating and its single-page form), the    *)
(* token cache of GoogleAuthService.getAccessToken, the tool handlers of   *)
(* cm360.ts behind the CallTool request handler, and the tools and         *)
(* resources registered by CM360McpServer.                                 *)
(*                                                                         *)
(* One group of variables per component.  Every action leaves the other    *)
(* components' variables unchanged, and each specification starts the      *)
(* components it does not exercise in their idle state.                    *)
(***************************************************************************)
EXTENDS Integers, Sequences, FiniteSets, TLC

(***************************************************************************)
(* Bounds of the model                                                     *)
(***************************************************************************)
\* The upstream stub answers one chosen page (1..MaxCut) differently from
\* the others.  Larger than the page limit so that the limit is what stops
\* the loop.
MaxCut == 11

\* Cap on the requests one invocation may issue in the model.  The code as
\* written never reaches it; it keeps a loop without its page limit finite.
MaxRequests == 12

\* How often the clock advances in one behaviour.
MaxTicks == 2

\* How many tokens the provider issues in one behaviour.
MaxIssued == 2

\* How many tool calls the server receives in one behaviour.
MaxCalls == 3

\* How many times a caller calls the single-page form in one behaviour.
MaxRepeat == 3

(***************************************************************************)
(* Program constants                                                       *)
(***************************************************************************)
\* `pageNumber >= 10` in the loop's stop condition.
PageLimit == 10

\* `this.tokenExpiry > now + 60000`
SafetyMargin == 60000

\* `now + 3600000; // 1 hour`
DefaultLifetime == 3600000

\* `expires_in * 1000`
MsPerSecond == 1000

(***************************************************************************)
(* Values                                                                  *)
(***************************************************************************)
CallIds == {1, 2}

\* nextPageToken values of an envelope: a non-empty string, or one of the
\* falsy values - the empty string, null, or undefined (the field is
\* missing).  The last two are marker values, not JavaScript strings.
Tokens == {"a", "b"}
NoToken == ""
NullValue == "<null>"
UndefinedValue == "<undefined>"
FalsyTokens == {NoToken, NullValue, UndefinedValue}

\* Item arrays an upstream page may carry.
ItemArrays == {<<>>, <<1>>, <<2, 1>>}

\* Errors with which client.request may reject (non-2xx, timeout).
Errors == {"http500", "timeout"}

\* What client.request does with one request: it rejects with `err`, or it
\* resolves with an envelope whose named array field is
\*   "absent" - undefined / null (falsy),
\*   "array"  - an array holding `items`,
\*   "other"  - a truthy value that is not an array and whose .length is
\*              not 0 (an object, a number, a non-empty string),
\* and whose nextPageToken is `next`.
Envelopes ==
    [ok : {TRUE}, err : {""}, kind : {"array"}, items : ItemArrays,
     next : Tokens \cup FalsyTokens]
    \cup
    [ok : {TRUE}, err : {""}, kind : {"absent", "other"}, items : {<<>>},
     next : Tokens \cup FalsyTokens]

Failures ==
    [ok : {FALSE}, err : Errors, kind : {"absent"}, items : {<<>>},
     next : {UndefinedValue}]

Responses == Envelopes \cup Failures

\* Parameter maps the list handlers pass as baseParams: the output of their
\* zod schemas (ListAdvertisersSchema, ListCampaignsSchema).
HandlerParams ==
    { [searchString |-> ""],
      [advertiserIds |-> <<7>>, searchString |-> "x"] }

NoParams == [searchString |-> ""]

Modes == {"all", "single"}

\* What an invocation resolved with: nothing yet ("none"), the bare array
\* of the aggregating form ("list", which has no nextPageToken property),
\* or the { items, nextPageToken } object of the single-page form ("page").
NoResult ==
    [shape |-> "none", items |-> <<>>, nextPageToken |-> UndefinedValue]

VARIABLES
    \* ---- paginatedRequest ----
    active,      \* the invocations that take place in this behaviour
    mode,        \* "all": aggregating loop; "single": one page per call
    baseParams,  \* the baseParams argument of each invocation
    usual,       \* the stub upstream: the response to every page ...
    special,     \* ... except page cutAt, which gets this response
    cutAt,
    pc,          \* "idle", "loop", "await", "returned", "thrown"
    pageToken,   \* local `pageToken`
    pageNumber,  \* local `pageNumber`
    isLastPage,  \* local `isLastPage`
    valueArray,  \* local `valueArray`
    requests,    \* history: the params of every upstream request issued
    responses,   \* history: every upstream response received
    result,      \* what the invocation resolved with
    thrown,      \* what the invocation rejected with ("" if nothing)
    \* ---- GoogleAuthService ----
    accessToken, \* this.accessToken; NoAccessToken stands for null
    tokenExpiry, \* this.tokenExpiry, in ms
    jwtClient,   \* whether this.jwtClient has been set
    clock,       \* Date.now(), in ms
    ticks,       \* how often the clock has advanced
    issued,      \* how many tokens the provider has issued
    apc,         \* per caller: "idle", "awaitClient", "awaitToken",
                 \*   "returned", "thrown"
    callNow,     \* per caller: local `now`
    got,         \* per caller: the token getAccessToken resolved with
    aerr,        \* per caller: the error it rejected with ("" if none)
    seen,        \* history: the cache and the clock when the call began
    provCalls,   \* history: provider token requests made by the call
    handoff,     \* history: the cache and the clock when the call returned
    lastGrant,   \* history: the provider's response most recently
                 \*   stored - its token, the expiry computed for it, the
                 \*   `now` of the call and the expires_in it carried
    \* ---- tool handlers and the CallTool request handler ----
    selectedAdvertiserId, \* the module variable; NullId stands for null
    hpc,         \* per call: "none", "running" (awaiting paginatedRequest),
                 \*   "done"
    hvia,        \* per call: "callTool" (through the request handler) or
                 \*   "direct" (the exported handler is called)
    htool,       \* per call: the tool name
    hargs,       \* per call: the arguments supplied
    hout,        \* per call: how the tool handler's promise settled
    resp,        \* per call: the response of the CallTool request handler
    calls,       \* how many calls have been received
    lastSelect,  \* history: the latest select-advertiser call - whether
                 \*   it succeeded, with which id, whether it failed,
                 \*   the selection before it, and how many page requests
                 \*   each running list call had sent by then
    selAtCall,   \* history, per call: lastSelect when the call began
    \* ---- CM360McpServer tools and resources ----
    mtool,       \* per caller: the tool or resource being served
    mphase,      \* per caller: "idle", "auth", "next", "await", "done"
    msent,       \* per caller: the upstream requests of the call so far
    mresp,       \* per caller: how the call ended
    \* ---- REST facade: /api/v1/examples ----
    rreq,        \* the request being served, or served last
    rphase,      \* "idle", "await" (the client call is pending), "sent"
    rcall,       \* the client call made for the request
    rerr,        \* the value the client call rejected with
    rres,        \* the HTTP response
    rinvoked     \* history: the layers invoked for the request

pagVars == <<active, mode, baseParams, usual, special, cutAt, pc, pageToken,
             pageNumber, isLastPage, valueArray, requests, responses,
             result, thrown>>

authVars == <<accessToken, tokenExpiry, jwtClient, clock, ticks, issued, apc,
              callNow, got, aerr, seen, provCalls, handoff, lastGrant>>

srvVars == <<selectedAdvertiserId, hpc, hvia, htool, hargs, hout, resp, calls,
             lastSelect, selAtCall>>

mcpVars == <<mtool, mphase, msent, mresp>>

restVars == <<rreq, rphase, rcall, rerr, rres, rinvoked>>

\* What the actions of one component leave alone.
nonPagVars == <<authVars, srvVars, mcpVars, restVars>>

nonAuthVars == <<pagVars, srvVars, mcpVars, restVars>>

vars == <<pagVars, authVars, srvVars, mcpVars, restVars>>

(***************************************************************************)
(* paginatedRequest                                                        *)
(***************************************************************************)
\* The stub upstream: the response to the n-th request of invocation c.
Upstream(c, n) == IF n = cutAt[c] THEN special[c] ELSE usual[c]

\* JavaScript truthiness of a string, null or undefined.
TruthyStr(s) == s \notin FalsyTokens

\* `{ ...a, ...b }`: the entries of b overwrite those of a.
Spread(a, b) ==
    [k \in (DOMAIN a) \cup (DOMAIN b) |-> IF k \in DOMAIN b THEN b[k] ELSE a[k]]

\* Mutant: later pages are requested with the cursor alone, the base
\* parameters dropped.
LoopParamsTokenOnly(tok, base) ==
    IF TruthyStr(tok) THEN [pageToken |-> tok] ELSE base

\* Mutant: the default advertiser filter is looked up again for each page.
LoopParamsLiveFilter(tok, base) ==
    LET live == IF /\ "advertiserIds" \in DOMAIN base
                   /\ Len(base["advertiserIds"]) = 0
                   /\ selectedAdvertiserId > 0
                THEN [base EXCEPT !["advertiserIds"] =
                         <<selectedAdvertiserId>>]
                ELSE base
    IN  IF TruthyStr(tok) THEN Spread([pageToken |-> tok], live) ELSE live

\* `(pageToken) ? { pageToken, ...baseParams } : { ...baseParams }`
LoopParams(tok, base) ==
    IF TruthyStr(tok) THEN Spread([pageToken |-> tok], base) ELSE base

\* `{ ...baseParams }` of the single-page form.
SingleParams(base) == base

\* `data[valueArrayKey] && Array.isArray(data[valueArrayKey])`
HasArray(data) == data.kind # "absent" /\ data.kind = "array"

\* Mutant: unshift instead of push - a page's items go in front.
PushItemsFront(arr, data) == IF HasArray(data) THEN data.items \o arr ELSE arr

\* Mutant: valueArray is declared at module level, so every invocation
\* pushes onto the one array, which the model keeps as that of invocation 1.
PushItemsShared(arr, data) ==
    IF HasArray(data) THEN valueArray[1] \o data.items ELSE valueArray[1]

\* Mutant: the page's items are assigned to the accumulator, not pushed.
PushItemsReplace(arr, data) == IF HasArray(data) THEN data.items ELSE arr

\* `valueArray.push(...data[valueArrayKey])` under the guard above.
PushItems(arr, data) == IF HasArray(data) THEN arr \o data.items ELSE arr

\* Mutant: the page counter is never incremented.
NextPageNumberStuck(num) == num

\* `pageNumber++`
NextPageNumber(num) == num + 1

\* `data.nextPageToken || ''`
NextToken(data) == IF TruthyStr(data.next) THEN data.next ELSE NoToken

\* Mutant: the stop condition without the page limit.
StopConditionNoLimit(data, tok, num) ==
    \/ data.kind = "absent"
    \/ (data.kind = "array" /\ Len(data.items) = 0)
    \/ ~TruthyStr(tok)

\* `!data[valueArrayKey] || data[valueArrayKey].length === 0 || !pageToken
\*  || pageNumber >= 10`, with pageToken and pageNumber already updated.
StopCondition(data, tok, num) ==
    \/ data.kind = "absent"
    \/ (data.kind = "array" /\ Len(data.items) = 0)
    \/ ~TruthyStr(tok)
    \/ num >= PageLimit

\* Mutant: the items of the last page are kept in a module-level variable
\* (which the model reads off the history of invocation 1) and returned
\* when the envelope has no array.
SingleItemsSticky(data) ==
    IF HasArray(data) THEN data.items
    ELSE IF responses[1] # <<>>
         THEN responses[1][Len(responses[1])].items
         ELSE <<>>

\* `items` of the single-page form.
SingleItems(data) == IF HasArray(data) THEN data.items ELSE <<>>

\* Mutant: the envelope's nextPageToken is passed on as it is.
SingleNextTokenRaw(data) == data.next

\* `data.nextPageToken || undefined` of the single-page form.
SingleNextToken(data) ==
    IF TruthyStr(data.next) THEN data.next ELSE UndefinedValue

\* The caller invokes paginatedRequest: the locals are initialised and
\* control reaches the top of the do-loop (the single request, in the
\* single-page form).
Start(c) ==
    /\ c \in active
    /\ pc[c] = "idle"
    /\ pc' = [pc EXCEPT ![c] = "loop"]
    /\ pageToken' = [pageToken EXCEPT ![c] = ""]
    /\ pageNumber' = [pageNumber EXCEPT ![c] = 1]
    /\ isLastPage' = [isLastPage EXCEPT ![c] = FALSE]
    /\ valueArray' = [valueArray EXCEPT ![c] = <<>>]
    /\ UNCHANGED <<active, mode, baseParams, usual, special, cutAt,
                   requests, responses, result, thrown>>
    /\ UNCHANGED nonPagVars

\* `client.request({url, method, params, timeout})`: the request goes out
\* and the invocation suspends on the await.
SendRequest(c) ==
    /\ c \in active
    /\ pc[c] = "loop"
    /\ Len(requests[c]) < MaxRequests
    /\ requests' = [requests EXCEPT ![c] =
          Append(@, IF mode[c] = "all"
                    THEN LoopParams(pageToken[c], baseParams[c])
                    ELSE SingleParams(baseParams[c]))]
    /\ pc' = [pc EXCEPT ![c] = "await"]
    /\ UNCHANGED <<active, mode, baseParams, usual, special, cutAt,
                   pageToken, pageNumber, isLastPage, valueArray,
                   responses, result, thrown>>
    /\ UNCHANGED nonPagVars

\* The awaited request resolves in the aggregating loop: the rest of the
\* loop body runs, then the `while (!isLastPage)` test.
ReceivePage(c) ==
    /\ c \in active
    /\ pc[c] = "await"
    /\ mode[c] = "all"
    /\ LET data == Upstream(c, Len(requests[c]))
           arr  == PushItems(valueArray[c], data)
           num  == NextPageNumber(pageNumber[c])
           tok  == NextToken(data)
           last == StopCondition(data, tok, num)
       IN  /\ data.ok
           /\ responses' = [responses EXCEPT ![c] = Append(@, data)]
           /\ valueArray' = [valueArray EXCEPT ![c] = arr]
           /\ pageNumber' = [pageNumber EXCEPT ![c] = num]
           /\ pageToken' = [pageToken EXCEPT ![c] = tok]
           /\ isLastPage' = [isLastPage EXCEPT ![c] = last]
           /\ IF last
              THEN /\ pc' = [pc EXCEPT ![c] = "returned"]
                   /\ result' = [result EXCEPT ![c] =
                         [shape |-> "list", items |-> arr,
                          nextPageToken |-> UndefinedValue]]
              ELSE /\ pc' = [pc EXCEPT ![c] = "loop"]
                   /\ UNCHANGED result
    /\ UNCHANGED <<active, mode, baseParams, usual, special, cutAt,
                   requests, thrown>>
    /\ UNCHANGED nonPagVars

\* The awaited request resolves in the single-page form: items and
\* nextPageToken are extracted and returned.
ReceiveSingle(c) ==
    /\ c \in active
    /\ pc[c] = "await"
    /\ mode[c] = "single"
    /\ LET data == Upstream(c, Len(requests[c]))
       IN  /\ data.ok
           /\ responses' = [responses EXCEPT ![c] = Append(@, data)]
           /\ result' = [result EXCEPT ![c] =
                 [shape |-> "page", items |-> SingleItems(data),
                  nextPageToken |-> SingleNextToken(data)]]
    /\ pc' = [pc EXCEPT ![c] = "returned"]
    /\ UNCHANGED <<active, mode, baseParams, usual, special, cutAt,
                   pageToken, pageNumber, isLastPage, valueArray,
                   requests, thrown>>
    /\ UNCHANGED nonPagVars

\* Mutant: the catch block logs the error and does not rethrow, so the
\* call resolves.
CatchSwallow(data) == [pc |-> "returned", thrown |-> ""]

\* What the catch block does with a failed request: log and rethrow.
CatchOutcome(data) == [pc |-> "thrown", thrown |-> data.err]

\* The awaited request rejects: the catch block logs and rethrows (both
\* forms).
ReceiveError(c) ==
    /\ c \in active
    /\ pc[c] = "await"
    /\ LET data == Upstream(c, Len(requests[c]))
           out  == CatchOutcome(data)
       IN  /\ ~data.ok
           /\ responses' = [responses EXCEPT ![c] = Append(@, data)]
           /\ pc' = [pc EXCEPT ![c] = out.pc]
           /\ thrown' = [thrown EXCEPT ![c] = out.thrown]
    /\ UNCHANGED <<active, mode, baseParams, usual, special, cutAt,
                   pageToken, pageNumber, isLastPage, valueArray,
                   requests, result>>
    /\ UNCHANGED nonPagVars

\* The caller, having got its result or its error, calls paginatedRequest
\* again with the same arguments; the upstream goes on with its next
\* response.
CallAgain(c) ==
    /\ c \in active
    /\ pc[c] \in {"returned", "thrown"}
    /\ Len(requests[c]) < MaxRepeat
    /\ pc' = [pc EXCEPT ![c] = "idle"]
    /\ result' = [result EXCEPT ![c] = NoResult]
    /\ thrown' = [thrown EXCEPT ![c] = ""]
    /\ UNCHANGED <<active, mode, baseParams, usual, special, cutAt,
                   pageToken, pageNumber, isLastPage, valueArray,
                   requests, responses>>
    /\ UNCHANGED nonPagVars

\* The arguments and the stub upstream of the invocations in `act`; an
\* invocation that does not take place keeps fixed values.
IdleResponse == [ok |-> FALSE, err |-> "timeout", kind |-> "absent",
                 items |-> <<>>, next |-> UndefinedValue]

PagArgs(act) ==
    /\ active = act
    /\ \E m \in [act -> Modes] :
          mode = [c \in CallIds |-> IF c \in act THEN m[c] ELSE "all"]
    /\ \E b \in [act -> HandlerParams] :
          baseParams = [c \in CallIds |-> IF c \in act THEN b[c] ELSE NoParams]
    /\ \E u \in [act -> Responses] :
          usual = [c \in CallIds |-> IF c \in act THEN u[c] ELSE IdleResponse]
    /\ \E s \in [act -> Responses] :
          special = [c \in CallIds |-> IF c \in act THEN s[c] ELSE IdleResponse]
    /\ \E k \in [act -> 1..MaxCut] :
          cutAt = [c \in CallIds |-> IF c \in act THEN k[c] ELSE 1]

PagLocals ==
    /\ pc = [c \in CallIds |-> "idle"]
    /\ pageToken = [c \in CallIds |-> ""]
    /\ pageNumber = [c \in CallIds |-> 1]
    /\ isLastPage = [c \in CallIds |-> FALSE]
    /\ valueArray = [c \in CallIds |-> <<>>]
    /\ requests = [c \in CallIds |-> <<>>]
    /\ responses = [c \in CallIds |-> <<>>]
    /\ result = [c \in CallIds |-> NoResult]
    /\ thrown = [c \in CallIds |-> ""]

(***************************************************************************)
(* GoogleAuthService.getAccessToken                                        *)
(* (CM360McpServer.getAccessToken is the same code)                        *)
(***************************************************************************)
AuthCallers == {1, 2}

NoAccessToken == 0

NoSnapshot == [token |-> NoAccessToken, expiry |-> 0, at |-> 0]

\* Steps by which Date.now() advances between two events, in ms.
ClockSteps == {1000, 60000}

\* `expires_in` of the provider's response, in seconds.
ExpiresIn == {0, 1, 120}

\* Stands for a response without expires_in (token.res, token.res.data or
\* the field itself is missing).
NoExpiresIn == -1

\* What jwtClient.getAccessToken() resolves with: `hasToken` is whether
\* token.token is a non-empty string.
TokenReplies ==
    [hasToken : BOOLEAN, expires_in : ExpiresIn \cup {NoExpiresIn}]

\* Mutant: the validity test without the safety margin.
StillValidNoMargin(tok, exp, now) == tok # NoAccessToken /\ exp > now

\* `this.accessToken && this.tokenExpiry > now + 60000`
StillValid(tok, exp, now) == tok # NoAccessToken /\ exp > now + SafetyMargin

\* `now + (token.res.data.expires_in * 1000)` when expires_in is truthy,
\* `now + 3600000` otherwise.
NewExpiry(now, reply) ==
    IF reply.expires_in # NoExpiresIn /\ reply.expires_in # 0
    THEN now + (reply.expires_in * MsPerSecond)
    ELSE now + DefaultLifetime

\* getAccessToken up to its first await: the cached token is returned, or
\* getClient() is awaited (no client yet), or the token request is issued.
GetAccessToken(a) ==
    /\ apc[a] \in {"idle", "returned", "thrown"}
    /\ callNow' = [callNow EXCEPT ![a] = clock]
    /\ seen' = [seen EXCEPT ![a] =
          [token |-> accessToken, expiry |-> tokenExpiry, at |-> clock]]
    /\ aerr' = [aerr EXCEPT ![a] = ""]
    /\ IF StillValid(accessToken, tokenExpiry, clock)
       THEN /\ apc' = [apc EXCEPT ![a] = "returned"]
            /\ got' = [got EXCEPT ![a] = accessToken]
            /\ provCalls' = [provCalls EXCEPT ![a] = 0]
            /\ handoff' = [handoff EXCEPT ![a] =
                  [token |-> accessToken, expiry |-> tokenExpiry,
                   at |-> clock]]
       ELSE /\ got' = [got EXCEPT ![a] = NoAccessToken]
            /\ handoff' = [handoff EXCEPT ![a] = NoSnapshot]
            /\ IF jwtClient
               THEN /\ apc' = [apc EXCEPT ![a] = "awaitToken"]
                    /\ provCalls' = [provCalls EXCEPT ![a] = 1]
               ELSE /\ apc' = [apc EXCEPT ![a] = "awaitClient"]
                    /\ provCalls' = [provCalls EXCEPT ![a] = 0]
    /\ UNCHANGED <<accessToken, tokenExpiry, jwtClient, clock, ticks, issued,
                   lastGrant>>
    /\ UNCHANGED nonAuthVars

\* googleAuth.getClient() resolves: this.jwtClient is set and the token
\* request is issued.
ClientResolves(a) ==
    /\ apc[a] = "awaitClient"
    /\ jwtClient' = TRUE
    /\ apc' = [apc EXCEPT ![a] = "awaitToken"]
    /\ provCalls' = [provCalls EXCEPT ![a] = @ + 1]
    /\ UNCHANGED <<accessToken, tokenExpiry, clock, ticks, issued, callNow,
                   got, aerr, seen, handoff, lastGrant>>
    /\ UNCHANGED nonAuthVars

\* Errors getAccessToken may reject with.
AuthErrors == {"getClient failed", "token request failed",
               "Failed to get access token"}

\* Mutant: the catch block clears the cache before it rethrows.
RethrowClearing(a, e) ==
    /\ apc' = [apc EXCEPT ![a] = "thrown"]
    /\ aerr' = [aerr EXCEPT ![a] = e]
    /\ accessToken' = NoAccessToken
    /\ tokenExpiry' = 0
    /\ lastGrant' = [token |-> NoAccessToken, expiry |-> 0, now |-> 0,
                     expires_in |-> NoExpiresIn]
    /\ UNCHANGED <<jwtClient, clock, ticks, issued, callNow, got, seen,
                   provCalls, handoff>>

\* Mutant: the catch block falls back to the token in the cache and the
\* call resolves with it.
RethrowStale(a, e) ==
    /\ apc' = [apc EXCEPT ![a] = "returned"]
    /\ aerr' = [aerr EXCEPT ![a] = e]
    /\ got' = [got EXCEPT ![a] = accessToken]
    /\ UNCHANGED <<accessToken, tokenExpiry, jwtClient, clock, ticks, issued,
                   callNow, seen, provCalls, handoff, lastGrant>>

\* The state after a failed await: the catch block logs and rethrows.
Rethrow(a, e) ==
    /\ apc' = [apc EXCEPT ![a] = "thrown"]
    /\ aerr' = [aerr EXCEPT ![a] = e]
    /\ UNCHANGED <<accessToken, tokenExpiry, jwtClient, clock, ticks, issued,
                   callNow, got, seen, provCalls, handoff, lastGrant>>

\* googleAuth.getClient() rejects.
ClientRejects(a) ==
    /\ apc[a] = "awaitClient"
    /\ Rethrow(a, "getClient failed")
    /\ UNCHANGED nonAuthVars

\* Mutant: the expiry is stored only after a further await, so at the
\* suspension point the cache holds the new token with the previous expiry.
CacheWriteTokenFirst(tok, exp) ==
    [accessToken |-> tok, tokenExpiry |-> tokenExpiry]

\* `this.accessToken = token.token;` ... `this.tokenExpiry = ...;`: both
\* fields are assigned with no await in between.
CacheWrite(tok, exp) == [accessToken |-> tok, tokenExpiry |-> exp]

\* jwtClient.getAccessToken() resolves with a token: the cache is replaced
\* and the new token returned.
TokenResolves(a) ==
    /\ apc[a] = "awaitToken"
    /\ issued < MaxIssued
    /\ \E reply \in TokenReplies :
          /\ reply.hasToken
          /\ issued' = issued + 1
          /\ LET w == CacheWrite(issued + 1, NewExpiry(callNow[a], reply))
             IN  /\ accessToken' = w.accessToken
                 /\ tokenExpiry' = w.tokenExpiry
          /\ lastGrant' = [token |-> issued + 1,
                           expiry |-> NewExpiry(callNow[a], reply),
                           now |-> callNow[a],
                           expires_in |-> reply.expires_in]
          /\ got' = [got EXCEPT ![a] = issued + 1]
          /\ handoff' = [handoff EXCEPT ![a] =
                [token |-> issued + 1,
                 expiry |-> NewExpiry(callNow[a], reply),
                 at |-> clock]]
    /\ apc' = [apc EXCEPT ![a] = "returned"]
    /\ UNCHANGED <<jwtClient, clock, ticks, callNow, aerr, seen, provCalls>>
    /\ UNCHANGED nonAuthVars

\* jwtClient.getAccessToken() resolves without a token
\* (`!token || !token.token`): 'Failed to get access token' is thrown.
TokenMissing(a) ==
    /\ apc[a] = "awaitToken"
    /\ Rethrow(a, "Failed to get access token")
    /\ UNCHANGED nonAuthVars

\* jwtClient.getAccessToken() rejects.
TokenRejects(a) ==
    /\ apc[a] = "awaitToken"
    /\ Rethrow(a, "token request failed")
    /\ UNCHANGED nonAuthVars

\* Time passes.
Tick ==
    /\ ticks < MaxTicks
    /\ \E d \in ClockSteps : clock' = clock + d
    /\ ticks' = ticks + 1
    /\ UNCHANGED <<accessToken, tokenExpiry, jwtClient, issued, apc, callNow,
                   got, aerr, seen, provCalls, handoff, lastGrant>>
    /\ UNCHANGED nonAuthVars

\* A fresh service: `accessToken = null`, `tokenExpiry = 0`, no client.
AuthInit ==
    /\ accessToken = NoAccessToken
    /\ tokenExpiry = 0
    /\ jwtClient = FALSE
    /\ clock = 0
    /\ ticks = 0
    /\ issued = 0
    /\ apc = [a \in AuthCallers |-> "idle"]
    /\ callNow = [a \in AuthCallers |-> 0]
    /\ got = [a \in AuthCallers |-> NoAccessToken]
    /\ aerr = [a \in AuthCallers |-> ""]
    /\ seen = [a \in AuthCallers |-> NoSnapshot]
    /\ provCalls = [a \in AuthCallers |-> 0]
    /\ handoff = [a \in AuthCallers |-> NoSnapshot]
    /\ lastGrant = [token |-> NoAccessToken, expiry |-> 0, now |-> 0,
                    expires_in |-> NoExpiresIn]


(***************************************************************************)
(* The tool handlers of cm360.ts and the CallTool request handler          *)
(***************************************************************************)
\* The tools listed by cm360.tools(), each with an exported handler.
ToolNames == {"list-advertisers", "list-campaigns", "select-advertiser",
              "list-creatives", "list-creative-groups", "list-event-tags",
              "list-placements"}

\* The cases of the switch in the CallTool request handler.
RoutedTools == {"list-advertisers", "list-campaigns", "select-advertiser",
                "list-creatives", "list-event-tags"}

\* How a call reaches a tool handler.
Vias == {"callTool", "direct"}

\* `selectedAdvertiserId = null`
NullId == -1

\* A value of the arguments object: undefined (the key is missing), a
\* number, a string or an array of numbers.
Undef == [t |-> "undefined", n |-> 0, s |-> "", a |-> <<>>]
Num(n) == [t |-> "number", n |-> n, s |-> "", a |-> <<>>]
Str(s) == [t |-> "string", n |-> 0, s |-> s, a |-> <<>>]
Arr(a) == [t |-> "array", n |-> 0, s |-> "", a |-> a]

\* `args || {}` of a call without arguments.
NoArgs == [advertiserIds |-> Undef, campaignIds |-> Undef,
           searchString |-> Undef, advertiserId |-> Undef]

\* Arguments a client supplies.
ArgSets ==
    { NoArgs,
      [NoArgs EXCEPT !.advertiserIds = Arr(<<>>)],
      [NoArgs EXCEPT !.advertiserIds = Arr(<<7>>), !.searchString = Str("x")],
      [NoArgs EXCEPT !.advertiserIds = Str("7")],
      [NoArgs EXCEPT !.searchString = Num(5)],
      [NoArgs EXCEPT !.advertiserId = Num(0)],
      [NoArgs EXCEPT !.advertiserId = Num(7)],
      [NoArgs EXCEPT !.advertiserId = Str("7")] }

\* The zod schema of each tool: its keys and their types.  Keys that are
\* not in the schema are stripped by z.object.
SchemaOf(tool) ==
    CASE tool = "list-advertisers" -> [searchString |-> "string?"]
      [] tool = "select-advertiser" -> [advertiserId |-> "number"]
      [] tool = "list-campaigns" ->
            [advertiserIds |-> "number[]?", searchString |-> "string?"]
      [] OTHER ->
            [advertiserIds |-> "number[]?", campaignIds |-> "number[]?",
             searchString |-> "string?"]

\* Whether a value passes `z.string().optional()`,
\* `z.number().array().optional()` or `z.number()`.
FieldAccepts(type, v) ==
    CASE type = "string?" -> v.t \in {"undefined", "string"}
      [] type = "number[]?" -> v.t \in {"undefined", "array"}
      [] OTHER -> v.t = "number"

\* The parsed value, with `.default("")` and `.default([])` applied.
FieldValue(type, v) ==
    CASE type = "string?" -> IF v.t = "undefined" THEN "" ELSE v.s
      [] type = "number[]?" -> IF v.t = "undefined" THEN <<>> ELSE v.a
      [] OTHER -> v.n

SchemaAccepts(tool, args) ==
    \A f \in DOMAIN SchemaOf(tool) : FieldAccepts(SchemaOf(tool)[f], args[f])

Parsed(tool, args) ==
    [f \in DOMAIN SchemaOf(tool) |-> FieldValue(SchemaOf(tool)[f], args[f])]

\* Mutant: safeParse with the defaults as fallback - bad arguments are
\* replaced by the defaults and the handler goes on.
ParseLenient(tool, args) ==
    IF SchemaAccepts(tool, args)
    THEN [ok |-> TRUE, value |-> Parsed(tool, args)]
    ELSE [ok |-> TRUE, value |-> Parsed(tool, NoArgs)]

\* `Schema.parse(args || {})`: the parsed arguments, or a ZodError thrown.
Parse(tool, args) ==
    IF SchemaAccepts(tool, args)
    THEN [ok |-> TRUE, value |-> Parsed(tool, args)]
    ELSE [ok |-> FALSE, value |-> NoParams]

\* JavaScript truthiness of `selectedAdvertiserId` (number | null).
TruthyId(id) == id # NullId /\ id # 0

\* `if (parsedArgs.advertiserIds.length === 0 && selectedAdvertiserId)
\*     parsedArgs.advertiserIds.push(selectedAdvertiserId);`
WithSelected(parsed, sel) ==
    IF /\ "advertiserIds" \in DOMAIN parsed
       /\ Len(parsed["advertiserIds"]) = 0
       /\ TruthyId(sel)
    THEN [parsed EXCEPT !["advertiserIds"] = <<sel>>]
    ELSE parsed

\* Mutant: the catch block of handleSelectAdvertiser keeps the selection.
AfterFailedSelectKeeps(sel) == sel

\* `selectedAdvertiserId = null;` in the catch block of
\* handleSelectAdvertiser.
AfterFailedSelect(sel) == NullId

\* No select-advertiser call so far.
NoSelect == [ok |-> FALSE, id |-> 0, failed |-> FALSE, before |-> NullId,
             inflight |-> [c \in CallIds |-> 0]]

\* How a handler's promise settles.
NoOutcome == [state |-> "none", kind |-> "none", items |-> <<>>, text |-> ""]

\* `mcpReturnJSON(data)`
ReturnJSON(items) ==
    [state |-> "resolved", kind |-> "json", items |-> items, text |-> ""]

\* The value handleSelectAdvertiser returns.
ReturnSelected ==
    [state |-> "resolved", kind |-> "text", items |-> <<>>,
     text |-> "Advertiser selected successfully"]

Rejected(err) ==
    [state |-> "rejected", kind |-> "error", items |-> <<>>, text |-> err]

\* Responses of the CallTool request handler.
NoResponse == [sent |-> FALSE, isError |-> FALSE, kind |-> "none",
               items |-> <<>>, text |-> "", detail |-> ""]

\* The default case of the switch.
UnknownTool(name) ==
    [sent |-> TRUE, isError |-> TRUE, kind |-> "text", items |-> <<>>,
     text |-> "Unknown tool: ", detail |-> name]

\* `return await handle...(...)`, and the catch-all around the switch:
\* `createTextResponse(`Error: ${error.message}`)`.
CallToolResponse(out) ==
    IF out.state = "resolved"
    THEN [sent |-> TRUE, isError |-> FALSE, kind |-> out.kind,
          items |-> out.items, text |-> out.text, detail |-> ""]
    ELSE [sent |-> TRUE, isError |-> FALSE, kind |-> "text", items |-> <<>>,
          text |-> "Error: ", detail |-> out.text]

\* What the caller of the call gets: the handler's promise itself, or the
\* request handler's response.
ResponseFor(via, out) ==
    IF via = "callTool" THEN CallToolResponse(out) ELSE NoResponse

\* A call arrives and runs up to its first await: the switch, the parse,
\* the update of selectedAdvertiserId (select-advertiser) or the default
\* advertiser filter and the call of paginatedRequest (list tools).
Invoke(c, via, tool, args) ==
    /\ hpc[c] \in {"none", "done"}
    /\ calls < MaxCalls
    /\ calls' = calls + 1
    /\ hvia' = [hvia EXCEPT ![c] = via]
    /\ htool' = [htool EXCEPT ![c] = tool]
    /\ hargs' = [hargs EXCEPT ![c] = args]
    /\ selAtCall' = [selAtCall EXCEPT ![c] = lastSelect]
    /\ pc' = [pc EXCEPT ![c] = "idle"]
    /\ pageToken' = [pageToken EXCEPT ![c] = ""]
    /\ pageNumber' = [pageNumber EXCEPT ![c] = 1]
    /\ isLastPage' = [isLastPage EXCEPT ![c] = FALSE]
    /\ valueArray' = [valueArray EXCEPT ![c] = <<>>]
    /\ requests' = [requests EXCEPT ![c] = <<>>]
    /\ responses' = [responses EXCEPT ![c] = <<>>]
    /\ result' = [result EXCEPT ![c] = NoResult]
    /\ thrown' = [thrown EXCEPT ![c] = ""]
    /\ LET p == Parse(tool, args)
       IN  IF via = "callTool" /\ tool \notin RoutedTools
           THEN /\ hpc' = [hpc EXCEPT ![c] = "done"]
                /\ hout' = [hout EXCEPT ![c] = NoOutcome]
                /\ resp' = [resp EXCEPT ![c] = UnknownTool(tool)]
                /\ active' = active \ {c}
                /\ baseParams' = [baseParams EXCEPT ![c] = NoParams]
                /\ UNCHANGED <<selectedAdvertiserId, lastSelect>>
           ELSE IF tool = "select-advertiser"
           THEN /\ selectedAdvertiserId' =
                      IF p.ok THEN p.value["advertiserId"]
                      ELSE AfterFailedSelect(selectedAdvertiserId)
                /\ lastSelect' =
                      [ok |-> SchemaAccepts(tool, args),
                       id |-> args.advertiserId.n,
                       failed |-> ~SchemaAccepts(tool, args),
                       before |-> selectedAdvertiserId,
                       inflight |-> [d \in CallIds |->
                          IF hpc[d] = "running" THEN Len(requests[d])
                          ELSE 0]]
                /\ hpc' = [hpc EXCEPT ![c] = "done"]
                /\ LET out == IF p.ok THEN ReturnSelected
                              ELSE Rejected("ZodError")
                   IN  /\ hout' = [hout EXCEPT ![c] = out]
                       /\ resp' = [resp EXCEPT ![c] = ResponseFor(via, out)]
                /\ active' = active \ {c}
                /\ baseParams' = [baseParams EXCEPT ![c] = NoParams]
           ELSE IF ~p.ok
           THEN /\ hpc' = [hpc EXCEPT ![c] = "done"]
                /\ hout' = [hout EXCEPT ![c] = Rejected("ZodError")]
                /\ resp' = [resp EXCEPT ![c] =
                      ResponseFor(via, Rejected("ZodError"))]
                /\ active' = active \ {c}
                /\ baseParams' = [baseParams EXCEPT ![c] = NoParams]
                /\ UNCHANGED <<selectedAdvertiserId, lastSelect>>
           ELSE /\ hpc' = [hpc EXCEPT ![c] = "running"]
                /\ hout' = [hout EXCEPT ![c] = NoOutcome]
                /\ resp' = [resp EXCEPT ![c] = NoResponse]
                /\ active' = active \cup {c}
                /\ baseParams' = [baseParams EXCEPT ![c] =
                      WithSelected(p.value, selectedAdvertiserId)]
                /\ UNCHANGED <<selectedAdvertiserId, lastSelect>>
    /\ UNCHANGED <<mode, usual, special, cutAt>>
    /\ UNCHANGED <<authVars, mcpVars, restVars>>

\* paginatedRequest has settled: the handler returns mcpReturnJSON of the
\* list, or rejects with the error paginatedRequest threw.
Complete(c) ==
    /\ hpc[c] = "running"
    /\ pc[c] \in {"returned", "thrown"}
    /\ hpc' = [hpc EXCEPT ![c] = "done"]
    /\ LET out == IF pc[c] = "returned" THEN ReturnJSON(result[c].items)
                  ELSE Rejected(thrown[c])
       IN  /\ hout' = [hout EXCEPT ![c] = out]
           /\ resp' = [resp EXCEPT ![c] = ResponseFor(hvia[c], out)]
    /\ UNCHANGED <<selectedAdvertiserId, hvia, htool, hargs, calls,
                   lastSelect, selAtCall>>
    /\ UNCHANGED <<pagVars, authVars, mcpVars, restVars>>

\* A fresh server: no advertiser selected, no call received.
SrvInit ==
    /\ selectedAdvertiserId = NullId
    /\ hpc = [c \in CallIds |-> "none"]
    /\ hvia = [c \in CallIds |-> "direct"]
    /\ htool = [c \in CallIds |-> "list-advertisers"]
    /\ hargs = [c \in CallIds |-> NoArgs]
    /\ hout = [c \in CallIds |-> NoOutcome]
    /\ resp = [c \in CallIds |-> NoResponse]
    /\ calls = 0
    /\ lastSelect = NoSelect
    /\ selAtCall = [c \in CallIds |-> NoSelect]

(***************************************************************************)
(* The tools and resources CM360McpServer registers                        *)
(***************************************************************************)
McpResources == {"account", "campaigns", "campaign", "reports"}

McpTools == {"get-campaign-performance", "create-campaign", "update-campaign"}

\* The upstream requests (axios.get / post / put) a handler makes, in
\* order, after it has obtained the access token.
Script(t) ==
    CASE t = "get-campaign-performance" ->
            << [method |-> "POST", path |-> "reports"],
               [method |-> "POST", path |-> "reports/run"],
               [method |-> "GET", path |-> "reports/files"],
               [method |-> "GET", path |-> "reports/files/file"] >>
      [] t = "create-campaign" -> << [method |-> "POST", path |-> "campaigns"] >>
      [] t = "update-campaign" ->
            << [method |-> "GET", path |-> "campaigns/id"],
               [method |-> "PUT", path |-> "campaigns"] >>
      [] OTHER -> << [method |-> "GET", path |-> t] >>

\* A client calls a tool or reads a resource: the handler starts and is
\* about to call getAccessToken.
ToolCall(a, t) ==
    /\ mphase[a] \in {"idle", "done"}
    /\ apc[a] \in {"idle", "returned", "thrown"}
    /\ mtool' = [mtool EXCEPT ![a] = t]
    /\ mphase' = [mphase EXCEPT ![a] = "auth"]
    /\ msent' = [msent EXCEPT ![a] = <<>>]
    /\ mresp' = [mresp EXCEPT ![a] = "none"]
    /\ apc' = [apc EXCEPT ![a] = "idle"]
    /\ UNCHANGED <<accessToken, tokenExpiry, jwtClient, clock, ticks, issued,
                   callNow, got, aerr, seen, provCalls, handoff, lastGrant>>
    /\ UNCHANGED <<pagVars, srvVars, restVars>>

\* `await this.getAccessToken()` begins.
ToolGetsToken(a) ==
    /\ mphase[a] = "auth"
    /\ apc[a] = "idle"
    /\ GetAccessToken(a)

\* getAccessToken rejected: a tool's catch block returns an error
\* response, a resource's catch block rethrows.
ToolAuthFails(a) ==
    /\ mphase[a] = "auth"
    /\ apc[a] = "thrown"
    /\ mphase' = [mphase EXCEPT ![a] = "done"]
    /\ mresp' = [mresp EXCEPT ![a] =
          IF mtool[a] \in McpTools THEN "isError" ELSE "rejected"]
    /\ UNCHANGED <<mtool, msent>>
    /\ UNCHANGED <<pagVars, authVars, srvVars, restVars>>

\* The next upstream request of the handler goes out.
ToolSends(a) ==
    /\ \/ mphase[a] = "auth" /\ apc[a] = "returned"
       \/ mphase[a] = "next"
    /\ msent' = [msent EXCEPT ![a] =
          Append(@, Script(mtool[a])[Len(@) + 1])]
    /\ mphase' = [mphase EXCEPT ![a] = "await"]
    /\ UNCHANGED <<mtool, mresp>>
    /\ UNCHANGED <<pagVars, authVars, srvVars, restVars>>

\* The awaited request resolves: the handler goes on to its next request,
\* or returns.  get-campaign-performance returns early when the report
\* has no file yet.
ToolResponse(a) ==
    /\ mphase[a] = "await"
    /\ \E noFile \in BOOLEAN :
          IF /\ mtool[a] = "get-campaign-performance"
             /\ Len(msent[a]) = 3
             /\ noFile
          THEN /\ mphase' = [mphase EXCEPT ![a] = "done"]
               /\ mresp' = [mresp EXCEPT ![a] = "processing"]
          ELSE IF Len(msent[a]) < Len(Script(mtool[a]))
          THEN /\ mphase' = [mphase EXCEPT ![a] = "next"]
               /\ UNCHANGED mresp
          ELSE /\ mphase' = [mphase EXCEPT ![a] = "done"]
               /\ mresp' = [mresp EXCEPT ![a] = "ok"]
    /\ UNCHANGED <<mtool, msent>>
    /\ UNCHANGED <<pagVars, authVars, srvVars, restVars>>

\* The awaited request rejects.
ToolRequestFails(a) ==
    /\ mphase[a] = "await"
    /\ mphase' = [mphase EXCEPT ![a] = "done"]
    /\ mresp' = [mresp EXCEPT ![a] =
          IF mtool[a] \in McpTools THEN "isError" ELSE "rejected"]
    /\ UNCHANGED <<mtool, msent>>
    /\ UNCHANGED <<pagVars, authVars, srvVars, restVars>>

McpInit ==
    /\ mtool = [a \in AuthCallers |-> "none"]
    /\ mphase = [a \in AuthCallers |-> "idle"]
    /\ msent = [a \in AuthCallers |-> <<>>]
    /\ mresp = [a \in AuthCallers |-> "none"]

(***************************************************************************)
(* REST facade: the example routes, validate and errorHandler              *)
(***************************************************************************)
\* Values of a query parameter or a JSON body field: absent, a string of
\* decimal digits with its value, another string, or a JSON number.
Absent == [t |-> "absent", n |-> 0, s |-> ""]
IntText(n) == [t |-> "int", n |-> n, s |-> ""]
Text(s) == [t |-> "text", n |-> 0, s |-> s]
JsonNum(n) == [t |-> "number", n |-> n, s |-> ""]

\* Strings of white space only.
Blanks == {"", "  "}

\* String.prototype.trim
Trim(s) == IF s \in Blanks THEN "" ELSE s

\* The validators of express-validator the routes use.
IsString(v) == v.t \in {"int", "text"}
IsInt(v, min, max) == v.t \in {"int", "number"} /\ min <= v.n /\ v.n <= max
IsIn(v, allowed) == v.t = "text" /\ v.s \in allowed
NotEmpty(v) == v.t = "int" \/ (v.t = "text" /\ Trim(v.s) # "")
Optional(v, ok) == v.t = "absent" \/ ok

\* The largest accepted `limit`, and the largest integer of the model
\* (isInt({ min: 1 }) has no upper limit).
MaxLimit == 100
MaxInt == 1000

RestRoutes == {"GET /", "POST /"}

\* Requests a client sends to /api/v1/examples.
QueryRequests ==
    [route : {"GET /"},
     page : {Absent, IntText(1), IntText(-1), Text("x")},
     limit : {Absent, IntText(10), IntText(101), Text("invalid")},
     sort : {Absent, Text("name")},
     order : {Absent, Text("asc"), Text("up")},
     name : {Absent}, description : {Absent}, status : {Absent}]

BodyRequests ==
    [route : {"POST /"},
     page : {Absent}, limit : {Absent}, sort : {Absent}, order : {Absent},
     name : {Absent, Text("Example"), Text("  "), JsonNum(5)},
     description : {Absent, Text("d"), JsonNum(5)},
     status : {Absent, Text("active"), Text("unknown")}]

RestRequests == QueryRequests \cup BodyRequests

\* The fields of a request that fail a validation chain of its route
\* (errors.array() of validate).
RuleFailures(req) ==
    IF req.route = "GET /"
    THEN {f \in {"page", "limit", "sort", "order"} :
            \/ f = "page" /\ ~Optional(req.page, IsInt(req.page, 1, MaxInt))
            \/ f = "limit"
               /\ ~Optional(req.limit, IsInt(req.limit, 1, MaxLimit))
            \/ f = "sort" /\ ~Optional(req.sort, IsString(req.sort))
            \/ f = "order"
               /\ ~Optional(req.order, IsIn(req.order, {"asc", "desc"}))}
    ELSE {f \in {"name", "description", "status"} :
            \/ f = "name" /\ ~(IsString(req.name) /\ NotEmpty(req.name))
            \/ f = "description"
               /\ ~Optional(req.description, IsString(req.description))
            \/ f = "status"
               /\ ~Optional(req.status,
                            IsIn(req.status, {"active", "inactive"}))}

\* Mutant: validate calls next() whatever the validation result.
ValidateGateOpen(failures) == TRUE

\* `if (errors.isEmpty()) { return next(); }`
ValidateGate(failures) == failures = {}

\* HTTP responses.
NoRestResponse == [status |-> 0, success |-> FALSE, code |-> ""]
ValidationResponse ==
    [status |-> 400, success |-> FALSE, code |-> "VALIDATION_ERROR"]
SuccessResponse(req) ==
    [status |-> IF req.route = "POST /" THEN 201 ELSE 200,
     success |-> TRUE, code |-> ""]

\* The call the service makes on the client.
NoCall == [method |-> "", path |-> ""]
ClientCall(req) ==
    [method |-> IF req.route = "POST /" THEN "POST" ELSE "GET",
     path |-> "/examples"]

\* `status?: number` of MCPError: no status.
NoStatus == 0

\* Values with which a call on the client rejects: the MCPError objects
\* MCPClient builds (from an error response, from a 2xx response with
\* success false, from a request without response), and the plain object
\* a stand-in client rejects with.
NoRejection == [instance |-> FALSE, name |-> "", code |-> "", status |-> 0]
ClientRejections ==
    [instance : {TRUE}, name : {"MCPError"},
     code : {"API_ERROR", "NOT_FOUND"}, status : {200, 404, 500}]
    \cup {[instance |-> TRUE, name |-> "MCPError",
           code |-> "CONNECTION_ERROR", status |-> NoStatus],
          [instance |-> FALSE, name |-> "", code |-> "API_ERROR",
           status |-> 500]}

\* errorHandler: the response for an error passed to next().
ErrorHandler(err) ==
    IF err.instance
    THEN [status |-> IF err.status # NoStatus THEN err.status ELSE 500,
          success |-> FALSE, code |-> err.code]
    ELSE IF err.name = "ValidationError"
    THEN [status |-> 400, success |-> FALSE, code |-> "VALIDATION_ERROR"]
    ELSE IF err.name = "SyntaxError"
    THEN [status |-> 400, success |-> FALSE, code |-> "INVALID_JSON"]
    ELSE [status |-> 500, success |-> FALSE,
          code |-> "INTERNAL_SERVER_ERROR"]

\* A request arrives: validate runs the route's chains and either answers
\* 400 or calls next(); the controller then calls the service, which
\* calls the client, and waits.
RestRequest(req) ==
    /\ rphase \in {"idle", "sent"}
    /\ rreq' = req
    /\ rerr' = NoRejection
    /\ IF ValidateGate(RuleFailures(req))
       THEN /\ rphase' = "await"
            /\ rinvoked' = {"controller", "service", "client"}
            /\ rcall' = ClientCall(req)
            /\ rres' = NoRestResponse
       ELSE /\ rphase' = "sent"
            /\ rinvoked' = {}
            /\ rcall' = NoCall
            /\ rres' = ValidationResponse
    /\ UNCHANGED <<pagVars, authVars, srvVars, mcpVars>>

\* The client call resolves: the controller sends the success envelope.
RestResolves ==
    /\ rphase = "await"
    /\ rphase' = "sent"
    /\ rres' = SuccessResponse(rreq)
    /\ UNCHANGED <<rreq, rcall, rerr, rinvoked>>
    /\ UNCHANGED <<pagVars, authVars, srvVars, mcpVars>>

\* The client call rejects: the controller's catch passes the error to
\* next(), and errorHandler answers.
RestRejects(err) ==
    /\ rphase = "await"
    /\ rphase' = "sent"
    /\ rerr' = err
    /\ rres' = ErrorHandler(err)
    /\ UNCHANGED <<rreq, rcall, rinvoked>>
    /\ UNCHANGED <<pagVars, authVars, srvVars, mcpVars>>

RestInit ==
    /\ rreq = [route |-> "GET /", page |-> Absent, limit |-> Absent,
               sort |-> Absent, order |-> Absent, name |-> Absent,
               description |-> Absent, status |-> Absent]
    /\ rphase = "idle"
    /\ rcall = NoCall
    /\ rerr = NoRejection
    /\ rres = NoRestResponse
    /\ rinvoked = {}

PagInit == PagArgs({1}) /\ PagLocals

PagIdle == PagArgs({}) /\ PagLocals

\* One invocation of paginatedRequest against a stub upstream.
Init == PagInit /\ AuthInit /\ SrvInit /\ McpInit /\ RestInit

Next ==
    \E c \in CallIds :
        \/ Start(c)
        \/ SendRequest(c)
        \/ ReceivePage(c)
        \/ ReceiveSingle(c)
        \/ ReceiveError(c)

Spec == Init /\ [][Next]_vars

\* Concurrent callers of getAccessToken on one service instance.
AuthSpecInit == PagIdle /\ AuthInit /\ SrvInit /\ McpInit /\ RestInit

AuthNext ==
    \/ \E a \in AuthCallers :
          \/ GetAccessToken(a)
          \/ ClientResolves(a)
          \/ ClientRejects(a)
          \/ TokenResolves(a)
          \/ TokenMissing(a)
          \/ TokenRejects(a)
    \/ Tick

AuthSpec == AuthSpecInit /\ [][AuthNext]_vars

\* Two aggregating invocations in flight at once (two tool calls being
\* served), each against its own upstream resource.
ConcUsual ==
    { [ok |-> TRUE, err |-> "", kind |-> "array", items |-> <<1>>,
       next |-> "a"],
      [ok |-> TRUE, err |-> "", kind |-> "array", items |-> <<2, 1>>,
       next |-> "b"] }

ConcSpecial ==
    { [ok |-> TRUE, err |-> "", kind |-> "array", items |-> <<>>,
       next |-> "a"],
      [ok |-> TRUE, err |-> "", kind |-> "array", items |-> <<1>>,
       next |-> UndefinedValue],
      [ok |-> TRUE, err |-> "", kind |-> "other", items |-> <<>>,
       next |-> "b"],
      [ok |-> FALSE, err |-> "http500", kind |-> "absent", items |-> <<>>,
       next |-> UndefinedValue] }

ConcCuts == {2, 3}

ConcInit ==
    /\ active = CallIds
    /\ mode = [c \in CallIds |-> "all"]
    /\ baseParams = [c \in CallIds |->
          IF c = 1 THEN [searchString |-> ""]
          ELSE [advertiserIds |-> <<7>>, searchString |-> "x"]]
    /\ \E u \in [CallIds -> ConcUsual] : usual = u
    /\ \E s \in [CallIds -> ConcSpecial] : special = s
    /\ \E k \in [CallIds -> ConcCuts] : cutAt = k
    /\ PagLocals
    /\ AuthInit
    /\ SrvInit
    /\ McpInit
    /\ RestInit

ConcNext ==
    \E c \in CallIds :
        \/ Start(c)
        \/ SendRequest(c)
        \/ ReceivePage(c)
        \/ ReceiveError(c)

ConcSpec == ConcInit /\ [][ConcNext]_vars

\* The stub upstreams of the tool calls: two pages of items; no item at
\* all; a first page and then a failing request; a failing first request;
\* a cursor on every page.
SrvStubs ==
    { [usual |-> [ok |-> TRUE, err |-> "", kind |-> "array",
                  items |-> <<1>>, next |-> "a"],
       special |-> [ok |-> TRUE, err |-> "", kind |-> "array",
                    items |-> <<2, 1>>, next |-> UndefinedValue],
       cutAt |-> 2],
      [usual |-> [ok |-> TRUE, err |-> "", kind |-> "array",
                  items |-> <<>>, next |-> UndefinedValue],
       special |-> [ok |-> TRUE, err |-> "", kind |-> "array",
                    items |-> <<>>, next |-> UndefinedValue],
       cutAt |-> 1],
      [usual |-> [ok |-> FALSE, err |-> "http500", kind |-> "absent",
                  items |-> <<>>, next |-> UndefinedValue],
       special |-> [ok |-> TRUE, err |-> "", kind |-> "array",
                    items |-> <<1>>, next |-> "a"],
       cutAt |-> 1],
      [usual |-> [ok |-> FALSE, err |-> "timeout", kind |-> "absent",
                  items |-> <<>>, next |-> UndefinedValue],
       special |-> [ok |-> FALSE, err |-> "timeout", kind |-> "absent",
                    items |-> <<>>, next |-> UndefinedValue],
       cutAt |-> 1],
      [usual |-> [ok |-> TRUE, err |-> "", kind |-> "array",
                  items |-> <<1>>, next |-> "a"],
       special |-> [ok |-> TRUE, err |-> "", kind |-> "array",
                    items |-> <<1>>, next |-> "a"],
       cutAt |-> 1] }

\* The calls the server handles one after the other.
Serving == {1}

\* The server of index.ts: tool calls arrive, each is served by its
\* handler from cm360.ts, which aggregates the pages of its list.
HandlerInit ==
    /\ active = {}
    /\ mode = [c \in CallIds |-> "all"]
    /\ baseParams = [c \in CallIds |-> NoParams]
    /\ \E st \in SrvStubs :
          /\ usual = [c \in CallIds |-> st.usual]
          /\ special = [c \in CallIds |-> st.special]
          /\ cutAt = [c \in CallIds |-> st.cutAt]
    /\ PagLocals
    /\ AuthInit
    /\ SrvInit
    /\ McpInit
    /\ RestInit

HandlerNext ==
    \E c \in Serving :
        \/ \E via \in Vias, tool \in ToolNames, args \in ArgSets :
              Invoke(c, via, tool, args)
        \/ Start(c)
        \/ SendRequest(c)
        \/ ReceivePage(c)
        \/ ReceiveError(c)
        \/ Complete(c)

HandlerSpec == HandlerInit /\ [][HandlerNext]_vars

\* The REST application: the example router, then errorHandler.
RestSpecInit == PagIdle /\ AuthInit /\ SrvInit /\ McpInit /\ RestInit

RestNext ==
    \/ \E req \in RestRequests : RestRequest(req)
    \/ RestResolves
    \/ \E err \in ClientRejections : RestRejects(err)

RestSpec == RestSpecInit /\ [][RestNext]_vars

\* Two requests handled concurrently: the handler of one list call is
\* suspended at each `await client.request` while select-advertiser calls
\* of other requests run to completion.
Lister == 1
Selector == 2
ListerTools == {"list-campaigns", "list-creatives"}
ListerArgs ==
    { NoArgs,
      [NoArgs EXCEPT !.advertiserIds = Arr(<<7>>), !.searchString = Str("x")] }
SelectorArgs ==
    { [NoArgs EXCEPT !.advertiserId = Num(7)],
      [NoArgs EXCEPT !.advertiserId = Str("7")] }
\* Upstreams whose list has more than one page.
SharedStubs == {st \in SrvStubs : st.special.ok /\ st.special.items # <<>>}

SharedInit ==
    /\ active = {}
    /\ mode = [c \in CallIds |-> "all"]
    /\ baseParams = [c \in CallIds |-> NoParams]
    /\ \E st \in SharedStubs :
          /\ usual = [c \in CallIds |-> st.usual]
          /\ special = [c \in CallIds |-> st.special]
          /\ cutAt = [c \in CallIds |-> st.cutAt]
    /\ PagLocals
    /\ AuthInit
    /\ SrvInit
    /\ McpInit
    /\ RestInit

SharedNext ==
    \/ \E via \in Vias, tool \in ListerTools, args \in ListerArgs :
          Invoke(Lister, via, tool, args)
    \/ \E via \in Vias, args \in SelectorArgs :
          Invoke(Selector, via, "select-advertiser", args)
    \/ Start(Lister)
    \/ SendRequest(Lister)
    \/ ReceivePage(Lister)
    \/ ReceiveError(Lister)
    \/ Complete(Lister)

SharedSpec == SharedInit /\ [][SharedNext]_vars

\* The clients of CM360McpServer.
McpCallers == {1}

McpSpecInit == PagIdle /\ AuthInit /\ SrvInit /\ McpInit /\ RestInit

McpNext ==
    \/ \E a \in McpCallers :
          \/ \E t \in McpTools \cup McpResources : ToolCall(a, t)
          \/ ToolGetsToken(a)
          \/ ClientResolves(a)
          \/ ClientRejects(a)
          \/ TokenResolves(a)
          \/ TokenMissing(a)
          \/ TokenRejects(a)
          \/ ToolAuthFails(a)
          \/ ToolSends(a)
          \/ ToolResponse(a)
          \/ ToolRequestFails(a)
    \/ Tick

McpSpec == McpSpecInit /\ [][McpNext]_vars

\* Two callers of the single-page form, each calling it several times
\* with its own arguments against its own sequence of envelopes.
RepeatResponses ==
    { [ok |-> TRUE, err |-> "", kind |-> "array", items |-> <<1>>,
       next |-> "a"],
      [ok |-> TRUE, err |-> "", kind |-> "array", items |-> <<2, 1>>,
       next |-> NoToken],
      [ok |-> TRUE, err |-> "", kind |-> "absent", items |-> <<>>,
       next |-> NullValue],
      [ok |-> FALSE, err |-> "http500", kind |-> "absent", items |-> <<>>,
       next |-> UndefinedValue] }

RepeatCuts == {1, 2}

RepeatInit ==
    /\ active = CallIds
    /\ mode = [c \in CallIds |-> "single"]
    /\ \E b \in HandlerParams :
          baseParams = [c \in CallIds |->
              IF c = 1 THEN [advertiserIds |-> <<7>>, searchString |-> "x"]
              ELSE b]
    /\ \E u \in [CallIds -> RepeatResponses] : usual = u
    /\ \E s \in [CallIds -> RepeatResponses] : special = s
    /\ \E k \in [CallIds -> RepeatCuts] : cutAt = k
    /\ PagLocals
    /\ AuthInit
    /\ SrvInit
    /\ McpInit
    /\ RestInit

RepeatNext ==
    \E c \in CallIds :
        \/ Start(c)
        \/ SendRequest(c)
        \/ ReceiveSingle(c)
        \/ ReceiveError(c)
        \/ CallAgain(c)

RepeatSpec == RepeatInit /\ [][RepeatNext]_vars

\* paginatedRequest called by other code than the tool handlers: the base
\* parameter map is any object, also one with a pageToken entry.
CallerParams ==
    HandlerParams \cup {[pageToken |-> "z", searchString |-> ""]}

CursorInit ==
    /\ active = {1}
    /\ mode = [c \in CallIds |-> "all"]
    /\ \E b \in CallerParams :
          baseParams = [c \in CallIds |-> IF c = 1 THEN b ELSE NoParams]
    /\ \E u \in ConcUsual :
          usual = [c \in CallIds |-> IF c = 1 THEN u ELSE IdleResponse]
    /\ \E s \in ConcSpecial :
          special = [c \in CallIds |-> IF c = 1 THEN s ELSE IdleResponse]
    /\ \E k \in ConcCuts :
          cutAt = [c \in CallIds |-> IF c = 1 THEN k ELSE 1]
    /\ PagLocals
    /\ AuthInit
    /\ SrvInit
    /\ McpInit
    /\ RestInit

CursorSpec == CursorInit /\ [][ConcNext]_vars

\* Each upstream request eventually resolves or rejects (every request
\* carries `timeout: 5000`), and the event loop runs every continuation
\* that is ready.
FairSpec ==
    /\ Spec
    /\ \A c \in CallIds :
          /\ WF_vars(Start(c))
          /\ WF_vars(SendRequest(c))
          /\ WF_vars(ReceivePage(c) \/ ReceiveSingle(c) \/ ReceiveError(c))

(***************************************************************************)
(* Vocabulary of the properties                                            *)
(***************************************************************************)
Done(c) == pc[c] \in {"returned", "thrown"}

NonEmptyWithCursor(r) ==
    r.ok /\ r.kind = "array" /\ r.items # <<>> /\ TruthyStr(r.next)

EmptyPage(r) == r.ok /\ r.kind = "array" /\ r.items = <<>>

\* The concatenation of the item arrays of pages 1..n of c's upstream.
RECURSIVE UpstreamItems(_, _)
UpstreamItems(c, n) ==
    IF n = 0 THEN <<>>
    ELSE UpstreamItems(c, n - 1) \o
         (IF Upstream(c, n).kind = "array" THEN Upstream(c, n).items ELSE <<>>)

\* The concatenation, in order, of the item arrays of a response history.
RECURSIVE Flatten(_)
Flatten(log) ==
    IF log = <<>> THEN <<>>
    ELSE (IF Head(log).ok /\ Head(log).kind = "array"
          THEN Head(log).items ELSE <<>>) \o Flatten(Tail(log))

(***************************************************************************)
(* Properties of the aggregating loop                                      *)
(***************************************************************************)

\* C1: against an upstream whose every page has a non-empty item array and
\* a non-empty nextPageToken, the aggregating loop returns after exactly
\* PageLimit (10) upstream requests.
C1_TenRequestsOnEndlessCursor ==
    \A c \in active :
        ( /\ mode[c] = "all"
          /\ NonEmptyWithCursor(usual[c])
          /\ NonEmptyWithCursor(special[c])
          /\ pc[c] = "returned" )
        => Len(requests[c]) = PageLimit

\* C2: the aggregating loop always terminates - every invocation
\* eventually returns or throws, whatever cursors the upstream hands out -
\* and reaching the page limit is a normal return of the items aggregated
\* so far: an invocation throws only when its last upstream request failed.
C2_AlwaysTerminates ==
    /\ <>(\A c \in active : Done(c))
    /\ [](\A c \in active :
            /\ pc[c] = "thrown" =>
                  /\ responses[c] # <<>>
                  /\ ~responses[c][Len(responses[c])].ok
            /\ (mode[c] = "all" /\ pageNumber[c] >= PageLimit) =>
                  /\ pc[c] = "returned"
                  /\ result[c].shape = "list"
                  /\ result[c].items = valueArray[c])

\* The loop returned because of the page limit: the last page was not
\* empty and carried a cursor.
C2_Witness ==
    \E c \in active :
        /\ mode[c] = "all"
        /\ pc[c] = "returned"
        /\ pageNumber[c] >= PageLimit
        /\ NonEmptyWithCursor(responses[c][Len(responses[c])])
        /\ Len(result[c].items) >= PageLimit - 1

\* C3: if pages 1..k-1 are non-empty with cursors and page k has an empty
\* item array, exactly k requests are made and the result is the
\* concatenation of pages 1..k-1, for every k >= 1.
C3_StopsAtFirstEmptyPage ==
    \A c \in active :
        ( /\ mode[c] = "all"
          /\ NonEmptyWithCursor(usual[c])
          /\ EmptyPage(special[c])
          /\ pc[c] = "returned" )
        => /\ Len(requests[c]) = cutAt[c]
           /\ result[c].items = UpstreamItems(c, cutAt[c] - 1)

\* C4: the aggregating loop returns exactly the concatenation, in upstream
\* order, of the item arrays of the pages it consumed.
C4_ResultIsConcatenation ==
    \A c \in active :
        (mode[c] = "all" /\ pc[c] = "returned")
        => /\ result[c].shape = "list"
           /\ result[c].items = Flatten(responses[c])
           /\ result[c].items = UpstreamItems(c, Len(requests[c]))

\* Three pages were consumed, the last unlike the others, and the result
\* holds their items in page order.
C4_Witness ==
    \E c \in active :
        /\ mode[c] = "all"
        /\ pc[c] = "returned"
        /\ Len(responses[c]) = 3
        /\ result[c].items = <<2, 1, 2, 1, 1>>

\* C5: within one aggregating call the pages are sequential and
\* cursor-chained: the first request carries the base parameters and no
\* pageToken, at most one request is outstanding (request n+1 follows
\* response n), and request n+1 carries the nextPageToken of response n as
\* pageToken together with every base parameter unchanged.
C5_SequentialCursorChain ==
    \A c \in active :
        mode[c] = "all" =>
            /\ Len(responses[c]) <= Len(requests[c])
            /\ Len(requests[c]) <= Len(responses[c]) + 1
            /\ requests[c] # <<>> =>
                  /\ requests[c][1] = baseParams[c]
                  /\ "pageToken" \notin DOMAIN requests[c][1]
            /\ \A n \in 1..(Len(requests[c]) - 1) :
                  /\ n <= Len(responses[c])
                  /\ DOMAIN requests[c][n + 1] =
                        (DOMAIN baseParams[c]) \cup {"pageToken"}
                  /\ requests[c][n + 1]["pageToken"] = responses[c][n].next
                  /\ \A k \in DOMAIN baseParams[c] :
                        requests[c][n + 1][k] = baseParams[c][k]

\* A third request is out, the first two responses carried different
\* cursors, and the base parameters hold an advertiser filter.
C5_Witness ==
    \E c \in active :
        /\ mode[c] = "all"
        /\ Len(requests[c]) = 3
        /\ responses[c][1].next # responses[c][2].next
        /\ "advertiserIds" \in DOMAIN baseParams[c]

\* C6: if the request for page k fails, the aggregating call throws that
\* error, the caller receives no items, and no further request is issued:
\* exactly k requests were made, the k-th being the first to fail.
C6_ErrorAbortsWithoutRetry ==
    /\ [](\A c \in active :
            mode[c] = "all" =>
                /\ (\E i \in 1..Len(responses[c]) : ~responses[c][i].ok)
                      => pc[c] = "thrown"
                /\ pc[c] = "thrown" =>
                      /\ Len(requests[c]) = Len(responses[c])
                      /\ \A i \in 1..(Len(responses[c]) - 1) : responses[c][i].ok
                      /\ thrown[c] = responses[c][Len(responses[c])].err
                      /\ thrown[c] \in Errors
                      /\ result[c] = NoResult)
    /\ [][\A c \in active :
            (mode[c] = "all" /\ pc[c] = "thrown") =>
                /\ pc'[c] = "thrown"
                /\ requests'[c] = requests[c]
                /\ result'[c] = result[c]]_vars

\* Page 3 failed after two pages of items had been aggregated.
C6_Witness ==
    \E c \in active :
        /\ mode[c] = "all"
        /\ pc[c] = "thrown"
        /\ Len(requests[c]) = 3
        /\ valueArray[c] # <<>>

\* C7: an invocation of the single-page form issues exactly one upstream
\* request, whatever its parameters and whatever the response; an
\* invocation of the aggregating form issues at most PageLimit (10).
C7_UpstreamCallCounts ==
    \A c \in active :
        /\ mode[c] = "single" =>
              /\ Len(requests[c]) <= 1
              /\ Done(c) => Len(requests[c]) = 1
        /\ mode[c] = "all" =>
              /\ Len(requests[c]) <= PageLimit
              /\ Done(c) => Len(requests[c]) >= 1

\* The single-page form returned after one request although the response
\* announced a further page.
C7_Witness ==
    \E c \in active :
        /\ mode[c] = "single"
        /\ pc[c] = "returned"
        /\ Len(requests[c]) = 1
        /\ TruthyStr(result[c].nextPageToken)
        /\ "advertiserIds" \in DOMAIN baseParams[c]

(***************************************************************************)
(* Properties of the token cache                                           *)
(***************************************************************************)
AuthDone(a) == apc[a] \in {"returned", "thrown"}

\* The cache held a token whose expiry was more than the safety margin
\* after the clock when a's call began.
FreshAtEntry(a) ==
    seen[a].token # NoAccessToken /\ seen[a].expiry > seen[a].at + SafetyMargin

\* The provider token requests in flight.
RefreshesInFlight == {a \in AuthCallers : apc[a] = "awaitToken"}

\* C8 as stated: the cached token is returned without a provider call, the
\* cache untouched, if and only if a token is cached whose expiry is more
\* than 60 s away; in every other case exactly one provider call is made
\* and its token replaces the cached one.
C8_ReuseElseExactlyOneCall ==
    \A a \in AuthCallers :
        AuthDone(a) =>
            /\ FreshAtEntry(a) =>
                  /\ apc[a] = "returned"
                  /\ provCalls[a] = 0
                  /\ got[a] = seen[a].token
                  /\ handoff[a].token = seen[a].token
                  /\ handoff[a].expiry = seen[a].expiry
            /\ ~FreshAtEntry(a) =>
                  /\ provCalls[a] = 1
                  /\ apc[a] = "returned"
                  /\ got[a] # seen[a].token
                  /\ handoff[a].token = got[a]

\* C8 as amended: ... in every other case a refresh is attempted with at
\* most one provider token request (none when client creation fails), and
\* the call resolves only with the token of that one request, which has
\* replaced the cached one; when the refresh fails the call rejects.
C8_ReuseElseOneRefresh ==
    \A a \in AuthCallers :
        /\ provCalls[a] <= 1
        /\ AuthDone(a) =>
              /\ FreshAtEntry(a) =>
                    /\ apc[a] = "returned"
                    /\ provCalls[a] = 0
                    /\ got[a] = seen[a].token
                    /\ handoff[a].token = seen[a].token
                    /\ handoff[a].expiry = seen[a].expiry
              /\ (apc[a] = "returned" /\ provCalls[a] = 0) => FreshAtEntry(a)
              /\ ~FreshAtEntry(a) =>
                    \/ /\ apc[a] = "returned"
                       /\ provCalls[a] = 1
                       /\ got[a] # NoAccessToken
                       /\ got[a] # seen[a].token
                       /\ handoff[a].token = got[a]
                    \/ /\ apc[a] = "thrown"
                       /\ aerr[a] \in AuthErrors
                       /\ aerr[a] = "getClient failed" <=> provCalls[a] = 0

\* A call found a cached token whose expiry was exactly 60 s away, made
\* one provider request and resolved with the new token.
C8_Witness ==
    \E a \in AuthCallers :
        /\ apc[a] = "returned"
        /\ seen[a].token # NoAccessToken
        /\ seen[a].expiry = seen[a].at + SafetyMargin
        /\ provCalls[a] = 1
        /\ got[a] # seen[a].token
        /\ accessToken = got[a]

\* C9: at the moment getAccessToken returns a token, the expiry recorded
\* for that token is later than the current time, for every lifetime the
\* provider reports and every latency of the provider.
C9_NotExpiredAtHandOff ==
    \A a \in AuthCallers :
        apc[a] = "returned" => handoff[a].expiry > handoff[a].at

\* C10: with concurrent callers on one instance, at most one provider
\* token request is in flight at any time.
C10_AtMostOneRefreshInFlight == Cardinality(RefreshesInFlight) <= 1


\* C11: the cached credential is never half-updated where another caller
\* can run: in every state (the states are exactly the suspension points
\* of the callers, under every interleaving of concurrent refreshes) the
\* cached token and the cached expiry are those of one provider response,
\* the one stored last - never a new token with the previous expiry or the
\* reverse.
C11_CacheNeverHalfUpdated ==
    /\ accessToken = lastGrant.token
    /\ tokenExpiry = lastGrant.expiry
    /\ accessToken = NoAccessToken => tokenExpiry = 0

\* While one caller is suspended on its token request, another caller's
\* refresh has replaced the token and the expiry the first one saw.
C11_Witness ==
    \E a, b \in AuthCallers :
        /\ apc[a] = "awaitToken"
        /\ apc[b] = "returned"
        /\ got[b] = accessToken
        /\ seen[a].token # NoAccessToken
        /\ seen[a].token # accessToken
        /\ seen[a].expiry # tokenExpiry

\* C12: when a refresh is needed and the provider cannot issue a
\* credential, getAccessToken rejects with an error: a suspended call
\* resolves only with a token the provider has just issued to it (never
\* with the stale cached token, null or an empty string), every other way
\* out of the await is a rejection with the error, and a rejected call has
\* made at most one token request and makes no further one.
C12_FailedRefreshRejects ==
    /\ [](\A a \in AuthCallers :
            /\ apc[a] = "thrown" =>
                  /\ aerr[a] \in AuthErrors
                  /\ got[a] = NoAccessToken
                  /\ provCalls[a] <= 1
                  /\ ~FreshAtEntry(a)
            /\ (apc[a] = "returned" /\ ~FreshAtEntry(a)) =>
                  /\ got[a] # NoAccessToken
                  /\ got[a] # seen[a].token
                  /\ aerr[a] = "")
    /\ [][\A a \in AuthCallers :
            /\ (apc[a] \in {"awaitClient", "awaitToken"}
                /\ apc'[a] = "returned") =>
                  /\ issued' = issued + 1
                  /\ got'[a] = issued'
                  /\ accessToken' = issued'
            /\ (apc[a] \in {"awaitClient", "awaitToken"}
                /\ apc'[a] \notin {"awaitClient", "awaitToken", "returned"}) =>
                  /\ apc'[a] = "thrown"
                  /\ aerr'[a] \in AuthErrors
                  /\ accessToken' = accessToken
                  /\ tokenExpiry' = tokenExpiry
            /\ (apc[a] = "thrown" /\ apc'[a] = "thrown") =>
                  provCalls'[a] = provCalls[a]]_vars

\* A call that found a stale token in the cache rejected because the
\* provider's response carried no token; the stale token is still cached.
C12_Witness ==
    \E a \in AuthCallers :
        /\ apc[a] = "thrown"
        /\ aerr[a] = "Failed to get access token"
        /\ seen[a].token # NoAccessToken
        /\ accessToken = seen[a].token
        /\ provCalls[a] = 1


(***************************************************************************)
(* Properties relating the two forms of paginatedRequest                   *)
(***************************************************************************)
\* The pages of c's upstream up to the first one the single-page form
\* returns without nextPageToken: the stub sequence is finite when such a
\* page exists and no request before it fails.
ChainEnds(c, n) ==
    /\ \A i \in 1..n : Upstream(c, i).ok
    /\ SingleNextToken(Upstream(c, n)) = UndefinedValue
    /\ \A i \in 1..(n - 1) : SingleNextToken(Upstream(c, i)) # UndefinedValue

FiniteChain(c) == \E n \in 1..MaxCut : ChainEnds(c, n)

ChainLength(c) == CHOOSE n \in 1..MaxCut : ChainEnds(c, n)

\* The list a caller builds with the single-page form: it calls it for
\* page 1, feeds each returned nextPageToken into the next call until none
\* is returned, and concatenates the items of every call.
RECURSIVE ManualItems(_, _)
ManualItems(c, n) ==
    IF n = 0 THEN <<>>
    ELSE ManualItems(c, n - 1) \o SingleItems(Upstream(c, n))

ManualList(c) == ManualItems(c, ChainLength(c))

\* A page at which the aggregating form stops although it carries a
\* cursor: its array field is missing or empty.
StopsDespiteCursor(r) ==
    /\ TruthyStr(r.next)
    /\ (r.kind = "absent" \/ (r.kind = "array" /\ r.items = <<>>))

\* C13 as stated: for every finite stub sequence of upstream pages, the
\* list built with the single-page form by following the cursors equals
\* the list the aggregating form returns for the same sequence.
C13_RoundTripEveryFiniteChain ==
    \A c \in active :
        (mode[c] = "all" /\ FiniteChain(c) /\ Done(c))
        => /\ pc[c] = "returned"
           /\ result[c].items = ManualList(c)

\* C13 as amended: the two lists are equal for every finite stub sequence
\* whose cursor chain ends within the PageLimit - 1 (9) pages the
\* aggregating form requests and in which no page that carries a cursor
\* has a missing or empty array field; the aggregating form then makes as
\* many requests as the chain has pages.
C13_RoundTripWithinLimit ==
    \A c \in active :
        ( /\ mode[c] = "all"
          /\ FiniteChain(c)
          /\ ChainLength(c) <= PageLimit - 1
          /\ \A i \in 1..ChainLength(c) : ~StopsDespiteCursor(Upstream(c, i))
          /\ Done(c) )
        => /\ pc[c] = "returned"
           /\ Len(requests[c]) = ChainLength(c)
           /\ result[c].items = ManualList(c)

\* The aggregating form returned the items of a chain of three pages, the
\* last of which differs from the first two.
C13_Witness ==
    \E c \in active :
        /\ mode[c] = "all"
        /\ pc[c] = "returned"
        /\ FiniteChain(c)
        /\ ChainLength(c) = 3
        /\ result[c].items = ManualList(c)
        /\ result[c].items = <<1, 1, 2, 1>>

\* C14: for every upstream envelope the single-page form returns items
\* equal to the named array field when that field is an array and [] when
\* it is missing or not an array, and nextPageToken equal to the envelope's
\* nextPageToken when that is a non-empty string and undefined when it is
\* missing, null or empty.
C14_SinglePageNormalisation ==
    \A c \in active :
        (mode[c] = "single" /\ pc[c] = "returned")
        => LET env == responses[c][1]
           IN  /\ result[c].shape = "page"
               /\ env.kind = "array" => result[c].items = env.items
               /\ env.kind \in {"absent", "other"} => result[c].items = <<>>
               /\ env.next \in Tokens => result[c].nextPageToken = env.next
               /\ env.next \in {UndefinedValue, NullValue, NoToken}
                     => result[c].nextPageToken = UndefinedValue

\* The envelope's array field was not an array and its nextPageToken null:
\* the call returned no items and no nextPageToken.
C14_Witness ==
    \E c \in active :
        /\ mode[c] = "single"
        /\ pc[c] = "returned"
        /\ responses[c][1].kind = "other"
        /\ responses[c][1].next = NullValue
        /\ result[c].items = <<>>
        /\ result[c].nextPageToken = UndefinedValue


\* C19: the aggregated result carries a trailing continuation cursor
\* exactly when the aggregation stopped before the upstream was exhausted
\* (the last response consumed still had a nextPageToken), and carries
\* none when the upstream was exhausted.
C19_CursorIffTruncated ==
    \A c \in active :
        (mode[c] = "all" /\ pc[c] = "returned")
        => ( TruthyStr(result[c].nextPageToken)
             <=> TruthyStr(responses[c][Len(responses[c])].next) )


(***************************************************************************)
(* Properties of concurrent aggregating invocations                        *)
(***************************************************************************)
\* The page at which invocation c stops when it runs alone: the first page
\* whose request fails or whose response meets the stop condition.
StopsAt(c, n) ==
    LET data == Upstream(c, n)
    IN  \/ ~data.ok
        \/ StopCondition(data, NextToken(data), n + 1)

AlonePages(c) ==
    CHOOSE n \in 1..PageLimit :
        StopsAt(c, n) /\ \A i \in 1..(n - 1) : ~StopsAt(c, i)

\* The locals of one invocation.
Locals(c) ==
    <<pc[c], pageToken[c], pageNumber[c], isLastPage[c], valueArray[c]>>

\* C20: when two aggregating invocations interleave at their upstream-call
\* suspension points, each returns exactly what it returns run alone - the
\* items of its own upstream's pages up to the page at which it stops
\* alone, or the error of its own failed request - and no step of one
\* invocation changes the cursor, page counter or accumulated items of the
\* other.
C20_IsolatedInvocations ==
    /\ [](\A c \in active :
            /\ Len(requests[c]) <= AlonePages(c)
            /\ \A i \in 1..Len(responses[c]) : responses[c][i] = Upstream(c, i)
            /\ pc[c] \in {"loop", "await"} =>
                  /\ valueArray[c] = UpstreamItems(c, Len(responses[c]))
                  /\ pageNumber[c] = Len(responses[c]) + 1
                  /\ Len(responses[c]) > 0 =>
                        pageToken[c] = responses[c][Len(responses[c])].next
            /\ pc[c] = "returned" =>
                  /\ Len(requests[c]) = AlonePages(c)
                  /\ Upstream(c, AlonePages(c)).ok
                  /\ result[c].items = UpstreamItems(c, AlonePages(c))
            /\ pc[c] = "thrown" =>
                  /\ Len(requests[c]) = AlonePages(c)
                  /\ thrown[c] = Upstream(c, AlonePages(c)).err
                  /\ result[c] = NoResult)
    /\ [][\E c \in active :
            \A d \in active \ {c} :
                /\ Locals(d)' = Locals(d)
                /\ requests'[d] = requests[d]
                /\ result'[d] = result[d]]_vars

\* Both invocations have finished after interleaving - the first returned
\* the items of three pages, the second those of nine pages - with
\* different results.
C20_Witness ==
    /\ active = CallIds
    /\ pc[1] = "returned"
    /\ pc[2] = "returned"
    /\ Len(responses[1]) = 3
    /\ Len(responses[2]) = PageLimit - 1
    /\ result[1].items = UpstreamItems(1, 3)
    /\ result[2].items = UpstreamItems(2, PageLimit - 1)
    /\ result[1].items # <<>>
    /\ result[1].items # result[2].items


(***************************************************************************)
(* Properties of the tool handlers                                         *)
(***************************************************************************)
\* The call reached the tool's handler.
HandlerRan(c) ==
    hpc[c] # "none" /\ (hvia[c] = "direct" \/ htool[c] \in RoutedTools)

\* C15: for every tool handler, when the supplied arguments fail the
\* handler's schema the handler throws (the ZodError) before any upstream
\* request is issued: the call makes no upstream request at all.
C15_ValidationPrecedesNetwork ==
    \A c \in CallIds :
        (HandlerRan(c) /\ ~SchemaAccepts(htool[c], hargs[c]))
        => /\ hpc[c] = "done"
           /\ hout[c] = Rejected("ZodError")
           /\ requests[c] = <<>>
           /\ pc[c] = "idle"
           /\ c \notin active

\* After an earlier call, handleListPlacements was called with an
\* advertiserIds that is not an array: it rejected without a request.
C15_Witness ==
    \E c \in CallIds :
        /\ calls >= 2
        /\ hpc[c] = "done"
        /\ hvia[c] = "direct"
        /\ htool[c] = "list-placements"
        /\ hargs[c].advertiserIds.t = "string"
        /\ hout[c].state = "rejected"
        /\ requests[c] = <<>>

\* C16: the response of the CallTool request handler lets the caller tell
\* the outcomes apart: a list call whose upstream request failed is
\* answered with a response marked as an error, and a list call with zero
\* results with an empty list and no error marker.
C16_OutcomesDistinguished ==
    \A c \in CallIds :
        (hpc[c] = "done" /\ hvia[c] = "callTool" /\ htool[c] \in RoutedTools)
        => /\ pc[c] = "thrown" => resp[c].isError
           /\ (pc[c] = "returned" /\ result[c].items = <<>>) =>
                 /\ ~resp[c].isError
                 /\ resp[c].kind = "json"
                 /\ resp[c].items = <<>>

\* C17: the server is read-only towards CM360: every upstream request of
\* every tool and resource it registers uses GET.
C17_OnlyGetRequests ==
    \A a \in AuthCallers :
        \A i \in 1..Len(msent[a]) : msent[a][i].method = "GET"

\* C18: after select-advertiser succeeded with a numeric id, every later
\* list-campaigns call whose advertiserIds is omitted or empty is sent
\* upstream with advertiserIds = [id], until the next select-advertiser
\* call.
C18_SelectedAdvertiserIsDefault ==
    \A c \in CallIds :
        ( /\ HandlerRan(c)
          /\ htool[c] = "list-campaigns"
          /\ SchemaAccepts(htool[c], hargs[c])
          /\ hargs[c].advertiserIds \in {Undef, Arr(<<>>)}
          /\ selAtCall[c].ok )
        => /\ baseParams[c]["advertiserIds"] = <<selAtCall[c].id>>
           /\ \A i \in 1..Len(requests[c]) :
                 requests[c][i]["advertiserIds"] = <<selAtCall[c].id>>


(***************************************************************************)
(* Properties of repeated single-page calls                                *)
(***************************************************************************)
Last(log) == log[Len(log)]

\* C21: the result of a single-page call depends only on its own
\* arguments and the upstream response to it: the request it sends is its
\* baseParams, and any two calls that sent the same parameters and got
\* identical envelopes returned identical results (or threw the same
\* error), whatever calls, successful or failed, preceded either of them.
C21_SinglePageStateless ==
    \A c, d \in active :
        ( /\ mode[c] = "single" /\ mode[d] = "single"
          /\ Done(c) /\ Done(d)
          /\ Last(requests[c]) = Last(requests[d])
          /\ Last(responses[c]) = Last(responses[d]) )
        => /\ Last(requests[c]) = baseParams[c]
           /\ pc[c] = pc[d]
           /\ result[c] = result[d]
           /\ thrown[c] = thrown[d]

\* One caller's third call, after a successful and a failed one, returned
\* what the other caller's first call returned for the same parameters and
\* an identical envelope.
C21_Witness ==
    /\ active = CallIds
    /\ pc[1] = "returned"
    /\ pc[2] = "returned"
    /\ Len(responses[1]) = 3
    /\ ~responses[1][2].ok
    /\ Len(responses[2]) = 1
    /\ Last(requests[1]) = Last(requests[2])
    /\ Last(responses[1]) = Last(responses[2])
    /\ result[1] = result[2]
    /\ result[1].items # <<>>


\* C22: after a successful refresh the recorded expiry is the reference
\* time of the refresh (the `now` of the call) plus expires_in * 1000 ms
\* when the provider's response carries expires_in, and the reference time
\* plus 3600 s when expires_in is absent.
C22_ExpiryArithmetic ==
    accessToken # NoAccessToken =>
        tokenExpiry =
            IF lastGrant.expires_in # NoExpiresIn
            THEN lastGrant.now + lastGrant.expires_in * 1000
            ELSE lastGrant.now + 3600 * 1000


\* C30: a failed refresh leaves the credential cache unchanged: no step
\* of a call that does not resolve - its entry, the creation of the
\* client, its rejection - changes the cached token or expiry, so when the
\* call has rejected and no other caller's refresh was stored meanwhile,
\* the cache is exactly what the call saw on entry, and a later call gets
\* the hit or miss it would have got without the failed call.
C30_FailedRefreshKeepsCache ==
    /\ [](\A a \in AuthCallers :
            (apc[a] = "thrown" /\ accessToken = seen[a].token) =>
                /\ tokenExpiry = seen[a].expiry
                /\ \A now \in {clock} :
                      StillValid(accessToken, tokenExpiry, now)
                      <=> StillValid(seen[a].token, seen[a].expiry, now))
    /\ [][\A a \in AuthCallers :
            (apc'[a] # apc[a] /\ apc'[a] # "returned") =>
                /\ accessToken' = accessToken
                /\ tokenExpiry' = tokenExpiry]_vars

\* A call that found an expiring token in the cache rejected because the
\* token request failed: token and expiry are those it saw on entry.
C30_Witness ==
    \E a \in AuthCallers :
        /\ apc[a] = "thrown"
        /\ aerr[a] = "token request failed"
        /\ seen[a].token # NoAccessToken
        /\ accessToken = seen[a].token
        /\ tokenExpiry = seen[a].expiry
        /\ tokenExpiry > 0


(***************************************************************************)
(* Further properties of the aggregating loop                              *)
(***************************************************************************)

\* C25: in full aggregation a page whose named array field is absent or
\* is not an array is treated as an empty page: it contributes no items
\* and ends the aggregation after that request, even when the response
\* carries a nextPageToken.
C25_NoArrayEndsAggregation ==
    \A c \in active :
        mode[c] = "all" =>
            \A i \in 1..Len(responses[c]) :
                (responses[c][i].ok /\ responses[c][i].kind # "array") =>
                    /\ Len(requests[c]) = i
                    /\ pc[c] = "returned"
                    /\ result[c].items = UpstreamItems(c, i - 1)

\* C26: in full aggregation, for every base parameter map, including one
\* that itself contains a pageToken entry, the pageToken sent in request
\* n+1 is the nextPageToken returned by response n.
C26_LoopCursorWins ==
    \A c \in active :
        mode[c] = "all" =>
            \A n \in 1..(Len(requests[c]) - 1) :
                /\ "pageToken" \in DOMAIN requests[c][n + 1]
                /\ requests[c][n + 1]["pageToken"] = responses[c][n].next


\* C27: every tool name advertised by cm360.tools() is routed by the
\* CallTool request handler to its handler: for no advertised tool name
\* does a call return the 'Unknown tool' error response.
C27_AdvertisedToolsRouted ==
    \A c \in CallIds :
        (hpc[c] # "none" /\ hvia[c] = "callTool" /\ htool[c] \in ToolNames)
        => /\ resp[c] # UnknownTool(htool[c])
           /\ HandlerRan(c)

\* A list call whose advertiserIds is omitted or empty and that passed
\* its schema.
UnfilteredListCall(c) ==
    /\ HandlerRan(c)
    /\ htool[c] # "select-advertiser"
    /\ "advertiserIds" \in DOMAIN SchemaOf(htool[c])
    /\ SchemaAccepts(htool[c], hargs[c])
    /\ hargs[c].advertiserIds \in {Undef, Arr(<<>>)}

\* C28: a select-advertiser call whose arguments fail validation throws
\* and leaves no advertiser selected - the selection is null after it
\* even if an advertiser had been selected before - so later list calls
\* with empty advertiserIds are sent account-wide (advertiserIds = []).
C28_FailedSelectResets ==
    /\ lastSelect.failed => selectedAdvertiserId = NullId
    /\ \A c \in CallIds :
          /\ ( /\ HandlerRan(c)
               /\ htool[c] = "select-advertiser"
               /\ ~SchemaAccepts(htool[c], hargs[c]) )
             => /\ hpc[c] = "done"
                /\ hout[c] = Rejected("ZodError")
          /\ (UnfilteredListCall(c) /\ selAtCall[c].failed)
             => /\ baseParams[c]["advertiserIds"] = <<>>
                /\ \A i \in 1..Len(requests[c]) :
                      requests[c][i]["advertiserIds"] = <<>>

\* Advertiser 7 was selected, a further select-advertiser call failed
\* validation, and the list-campaigns call after it went out without an
\* advertiser filter.
C28_Witness ==
    \E c \in CallIds :
        /\ htool[c] = "list-campaigns"
        /\ UnfilteredListCall(c)
        /\ selAtCall[c].failed
        /\ selAtCall[c].before = 7
        /\ selectedAdvertiserId = NullId
        /\ Len(requests[c]) >= 1
        /\ requests[c][1]["advertiserIds"] = <<>>


\* The advertiser filter a list call has when it starts: the caller's
\* ids, or the advertiser selected at that moment, or none.
FilterAtStart(c) ==
    IF hargs[c].advertiserIds.t = "array" /\ hargs[c].advertiserIds.a # <<>>
    THEN hargs[c].advertiserIds.a
    ELSE IF selAtCall[c].ok /\ selAtCall[c].id > 0
    THEN <<selAtCall[c].id>>
    ELSE <<>>

\* C29: the advertiser filter of a list call is fixed when the call
\* starts: every upstream page request of one invocation carries the same
\* advertiserIds - those the call had at its start - even if
\* select-advertiser calls of other requests are processed while the
\* invocation is suspended between page requests.
C29_FilterFixedAtCallStart ==
    \A c \in CallIds :
        ( /\ HandlerRan(c)
          /\ htool[c] # "select-advertiser"
          /\ "advertiserIds" \in DOMAIN SchemaOf(htool[c])
          /\ SchemaAccepts(htool[c], hargs[c]) )
        => /\ baseParams[c]["advertiserIds"] = FilterAtStart(c)
           /\ \A i \in 1..Len(requests[c]) :
                 requests[c][i]["advertiserIds"] = FilterAtStart(c)

\* A list-campaigns call began with no advertiser selected; advertiser 7
\* was selected by another request after its first page request and
\* before a later one; all its page requests are unfiltered.
C29_Witness ==
    /\ htool[Lister] = "list-campaigns"
    /\ UnfilteredListCall(Lister)
    /\ selAtCall[Lister] = NoSelect
    /\ lastSelect.ok
    /\ selectedAdvertiserId = 7
    /\ lastSelect.inflight[Lister] >= 1
    /\ Len(requests[Lister]) > lastSelect.inflight[Lister]
    /\ \A i \in 1..Len(requests[Lister]) :
          requests[Lister][i]["advertiserIds"] = <<>>


\* C23: REST error translation - when the client call made for a REST
\* request rejects with an API error carrying code C and HTTP status S,
\* the response has HTTP status S and body success = false with
\* error.code = C.
C23_ErrorTranslation ==
    (rphase = "sent" /\ rerr # NoRejection /\ rerr.status # NoStatus)
    => /\ rres.status = rerr.status
       /\ ~rres.success
       /\ rres.code = rerr.code

\* C24: REST validation gate - a request that fails any validation rule
\* of its route is answered with HTTP 400 and error.code VALIDATION_ERROR,
\* and the controller, the service and the client are never invoked for
\* that request.
C24_ValidationGate ==
    RuleFailures(rreq) # {}
    => /\ rphase = "sent"
       /\ rres = ValidationResponse
       /\ rinvoked = {}
       /\ rcall = NoCall

\* GET /api/v1/examples?page=-1&limit=invalid has been answered.
C24_Witness ==
    /\ rphase = "sent"
    /\ rreq.route = "GET /"
    /\ rreq.page = IntText(-1)
    /\ rreq.limit = Text("invalid")
    /\ RuleFailures(rreq) = {"page", "limit"}
    /\ rres.status = 400
    /\ rinvoked = {}

=============================================================================
